---- MODULE Spec2Model ----
(***************************************************************************)
(* A model of the blog application: the Post / Tag / Comment store, the    *)
(* admin operations that change it, and the public views that read it      *)
(* (post_list, post_detail, post_comment, post_search, the latest-posts    *)
(* feed and the sitemap).                                                  *)
(***************************************************************************)
EXTENDS Integers, Sequences, FiniteSets, TLC

VARIABLES
    posts,            \* blog_post table: id -> row
    next_post_id,     \* the table's auto-increment
    tag_table,        \* taggit_tag table: the tag slugs that exist
    tagged_items,     \* taggit_taggeditem table: <<post id, tag>> rows
    comments,         \* blog_comment table: a set of rows
    next_comment_id,  \* the table's auto-increment
    inflight,         \* post_comment requests in progress, per client
    admin_forms,      \* admin add-post forms validated and not yet saved
    request,          \* the last request of a view
    response          \* and what the view answered

vars == <<posts, next_post_id, tag_table, tagged_items, comments,
          next_comment_id, inflight, admin_forms, request, response>>

(***************************************************************************)
(* Bounds of the model and the small sets inputs are drawn from.           *)
(***************************************************************************)
MaxPosts == 2
MaxRankPosts == 3
MaxFeedPosts == 6
MaxPagePosts == 7
MaxDate == 2
MaxParamLen == 2
MaxClients == 1
MaxComments == 2
MaxAdmins == 2
MaxSimilarPosts == 6
TicksPerDay == 2

Dates == 1..MaxDate
TagNames == {"django", "python"}
Words == {"orm", "views"}
Clients == 1..MaxClients
Admins == 1..MaxAdmins

\* A publish value is a point in time; the calendar day it falls on is what
\* its year, month and day name.
Day(t) == t \div TicksPerDay

\* The slug the author gives the post with this id, and its other text.
SlugOf(id) == <<"post", id>>
SomeWord == "orm"

(***************************************************************************)
(* models.py                                                               *)
(***************************************************************************)
DRAFT == "DF"
PUBLISHED == "PB"
Status == {DRAFT, PUBLISHED}

Post(title, slug, body, publish, now, status) ==
    [title |-> title, slug |-> slug, body |-> body, publish |-> publish,
     created |-> now, updated |-> now, status |-> status]

\* Post.objects: the default manager, every row.
AllObjects == DOMAIN posts

\* The manager without its filter on the status.
PublishedUnfiltered == DOMAIN posts

\* Post.published: PublishedManager.get_queryset.
Published == {id \in DOMAIN posts : posts[id].status = PUBLISHED}

\* post.tags: the tags a post is associated with.
TagsOf(id) == {t \in tag_table : <<id, t>> \in tagged_items}

\* Comment.active defaults to True.
Comment(id, post_id, form) ==
    [id |-> id, post |-> post_id, name |-> form.name, email |-> form.email,
     body |-> form.body, active |-> TRUE]

(***************************************************************************)
(* ORDER BY: the sequences a database may return for the rows of keyed, a  *)
(* set of <<key, row>> with a tuple as key, ordered ascending by key       *)
(* (compared left to right).  Rows with equal keys come in any order.      *)
(***************************************************************************)
LexLess(a, b) ==
    \E i \in 1..Len(a) : a[i] < b[i] /\ \A j \in 1..(i - 1) : a[j] = b[j]

RECURSIVE Orderings(_)
Orderings(keyed) ==
    IF keyed = {} THEN {<<>>}
    ELSE LET first == {m \in keyed : \A x \in keyed : ~LexLess(x[1], m[1])}
         IN UNION {{<<m[2]>> \o s : s \in Orderings(keyed \ {m})} : m \in first}

PublishAscending(S) == Orderings({<<<<posts[id].publish>>, id>> : id \in S})

\* Post.Meta.ordering = ['-publish'].
MetaOrdering(S) == Orderings({<<<<-posts[id].publish>>, id>> : id \in S})

Range(s) == {s[i] : i \in 1..Len(s)}
Min(a, b) == IF a < b THEN a ELSE b
Max(a, b) == IF a > b THEN a ELSE b
Take(s, n) == SubSeq(s, 1, Min(n, Len(s)))

(***************************************************************************)
(* The admin site (PostAdmin): add, change and delete posts.               *)
(***************************************************************************)
\* slug is unique_for_date='publish': no column constraint, a lookup of the
\* rows with this slug and publish__year, __month, __day that the model
\* form of the admin makes when it validates.
validate_unique(slug, publish) ==
    \A id \in DOMAIN posts :
        ~(posts[id].slug = slug /\ Day(posts[id].publish) = Day(publish))

\* The add form validated and saved with no other request in between.
AdminAddPost(title, slug, body, publish, status, tags, now) ==
    /\ validate_unique(slug, publish)
    /\ posts' = posts @@
           (next_post_id :> Post(title, slug, body, publish, now, status))
    /\ next_post_id' = next_post_id + 1
    /\ tag_table' = tag_table \cup tags
    /\ tagged_items' = tagged_items \cup {<<next_post_id, t>> : t \in tags}
    /\ UNCHANGED <<comments, next_comment_id, inflight, admin_forms, request,
                   response>>

AdminChangeStatus(id, status, now) ==
    /\ id \in DOMAIN posts
    /\ posts[id].status # status
    /\ posts' = [posts EXCEPT ![id].status = status, ![id].updated = now]
    /\ UNCHANGED <<next_post_id, tag_table, tagged_items, comments,
                   next_comment_id, inflight, admin_forms, request, response>>

AdminSetTags(id, tags, now) ==
    /\ id \in DOMAIN posts
    /\ tags # TagsOf(id)
    /\ posts' = [posts EXCEPT ![id].updated = now]
    /\ tag_table' = tag_table \cup tags
    /\ tagged_items' = {r \in tagged_items : r[1] # id}
                           \cup {<<id, t>> : t \in tags}
    /\ UNCHANGED <<next_post_id, comments, next_comment_id, inflight,
                   admin_forms, request, response>>

(***************************************************************************)
(* The admin site (CommentAdmin): add a comment to any post, with either   *)
(* value of active, and change the active flag of a comment.               *)
(***************************************************************************)
AdminAddComment(post_id, form, active) ==
    /\ post_id \in DOMAIN posts
    /\ comments' = comments \cup
           {[Comment(next_comment_id, post_id, form) EXCEPT !.active = active]}
    /\ next_comment_id' = next_comment_id + 1
    /\ UNCHANGED <<posts, next_post_id, tag_table, tagged_items, inflight,
                   admin_forms, request, response>>

AdminSetActive(id, active) ==
    /\ \E c \in comments :
           /\ c.id = id
           /\ c.active # active
           /\ comments' = (comments \ {c}) \cup {[c EXCEPT !.active = active]}
    /\ UNCHANGED <<posts, next_post_id, tag_table, tagged_items,
                   next_comment_id, inflight, admin_forms, request, response>>

(***************************************************************************)
(* The admin site (PostAdmin), the add form as the two requests' steps it  *)
(* is when two staff users work at once.                                   *)
(***************************************************************************)
\* The add form of two requests: form.is_valid() of the one and save_model()
\* of the other are separate statements of separate transactions, and the
\* INSERT of the second checks nothing.
NoPostForm == [pc |-> "idle", row |-> Post("", "", "", 0, 0, DRAFT)]

AdminValidatePost(admin, title, slug, body, publish, status, now) ==
    /\ admin_forms[admin].pc = "idle"
    /\ validate_unique(slug, publish)
    /\ admin_forms' =
           [admin_forms EXCEPT ![admin] =
               [pc |-> "valid",
                row |-> Post(title, slug, body, publish, now, status)]]
    /\ UNCHANGED <<posts, next_post_id, tag_table, tagged_items, comments,
                   next_comment_id, inflight, request, response>>

AdminSavePost(admin) ==
    /\ admin_forms[admin].pc = "valid"
    /\ posts' = posts @@ (next_post_id :> admin_forms[admin].row)
    /\ next_post_id' = next_post_id + 1
    /\ admin_forms' = [admin_forms EXCEPT ![admin] = NoPostForm]
    /\ UNCHANGED <<tag_table, tagged_items, comments, next_comment_id,
                   inflight, request, response>>

\* The delete without the cascade to the comments.
AdminDeletePostOnly(id) ==
    /\ id \in DOMAIN posts
    /\ posts' = [i \in DOMAIN posts \ {id} |-> posts[i]]
    /\ tagged_items' = {r \in tagged_items : r[1] # id}
    /\ UNCHANGED <<next_post_id, tag_table, comments, next_comment_id,
                   inflight, admin_forms, request, response>>

\* on_delete=CASCADE for the comments; the tag associations go with the post,
\* the Tag rows stay.
AdminDeletePost(id) ==
    /\ id \in DOMAIN posts
    /\ posts' = [i \in DOMAIN posts \ {id} |-> posts[i]]
    /\ tagged_items' = {r \in tagged_items : r[1] # id}
    /\ comments' = {c \in comments : c.post # id}
    /\ UNCHANGED <<next_post_id, tag_table, next_comment_id, inflight,
                   admin_forms, request, response>>

(***************************************************************************)
(* views.py: post_list.  A request carries the tag slug of the URL ("" for *)
(* the URL without one) and the page parameter of the query string, a      *)
(* string when present.                                                    *)
(***************************************************************************)
PerPage == 3
SimilarLimit == 4
FeedLimit == 5

Chars == {"0", "1", "2", "3", "-", "a"}
Digits == {"0", "1", "2", "3"}

RECURSIVE Strings(_)
Strings(n) ==
    IF n = 0 THEN {<<>>}
    ELSE Strings(n - 1) \cup
         {Append(s, c) : s \in {t \in Strings(n - 1) : Len(t) = n - 1}, c \in Chars}

Request(tag_slug, has_page, page) ==
    [tag_slug |-> tag_slug, has_page |-> has_page, page |-> page]

NoRequest == Request("", FALSE, <<>>)

\* int(str): an optional sign, then one or more decimal digits.
DigitValue(c) == CASE c = "0" -> 0 [] c = "1" -> 1 [] c = "2" -> 2 [] c = "3" -> 3

IsDigits(s) == Len(s) >= 1 /\ \A i \in 1..Len(s) : s[i] \in Digits

IntParses(s) ==
    IF Len(s) >= 1 /\ s[1] = "-" THEN IsDigits(Tail(s)) ELSE IsDigits(s)

RECURSIVE DigitsValue(_)
DigitsValue(s) ==
    IF s = <<>> THEN 0
    ELSE 10 * DigitsValue(SubSeq(s, 1, Len(s) - 1)) + DigitValue(s[Len(s)])

IntValue(s) == IF s[1] = "-" THEN -DigitsValue(Tail(s)) ELSE DigitsValue(s)

\* Paginator.num_pages with no orphans and allow_empty_first_page:
\* ceil(max(1, count) / per_page).
NumPages(list) == (Max(1, Len(list)) + PerPage - 1) \div PerPage

\* Paginator.validate_number: the exception it raises, or the number.
ValidateInt(list, n) ==
    IF n < 1 \/ n > NumPages(list)
    THEN [raised |-> "EmptyPage", number |-> 0]
    ELSE [raised |-> "", number |-> n]

ValidateNumber(list, req) ==
    IF ~req.has_page THEN ValidateInt(list, 1)               \* GET.get('page', 1)
    ELSE IF ~IntParses(req.page)
         THEN [raised |-> "PageNotAnInteger", number |-> 0]
         ELSE ValidateInt(list, IntValue(req.page))

Response(status, items, number, num_pages) ==
    [status |-> status, items |-> items, number |-> number,
     num_pages |-> num_pages,
     has_next |-> number < num_pages,                        \* Page.has_next
     has_previous |-> number > 1]                            \* Page.has_previous

NotFound == Response(404, <<>>, 1, 1)
ServerError == Response(500, <<>>, 1, 1)
NoResponse == Response(0, <<>>, 1, 1)

\* paginator.page(n) for an integer n: the slice [bottom:top] of the list.
\* An exception raised here, inside the view's handlers, is not caught.
PaginatorPage(list, n) ==
    IF ValidateInt(list, n).raised # "" THEN ServerError
    ELSE LET bottom == (n - 1) * PerPage
             top == Min(bottom + PerPage, Len(list))
         IN Response(200, SubSeq(list, bottom + 1, top), n, NumPages(list))

\* The handlers of post_list changed, one at a time: a parameter that is no
\* integer answered with the last page; EmptyPage not caught; a page out of
\* range answered with the first page.
PostListPageLastForText(list, req) ==
    LET v == ValidateNumber(list, req)
    IN CASE v.raised = "" -> PaginatorPage(list, v.number)
         [] v.raised = "PageNotAnInteger" -> PaginatorPage(list, NumPages(list))
         [] v.raised = "EmptyPage" -> PaginatorPage(list, NumPages(list))

PostListPageUncaught(list, req) ==
    LET v == ValidateNumber(list, req)
    IN CASE v.raised = "" -> PaginatorPage(list, v.number)
         [] v.raised = "PageNotAnInteger" -> PaginatorPage(list, 1)
         [] v.raised = "EmptyPage" -> ServerError

PostListPageFirstForRange(list, req) ==
    LET v == ValidateNumber(list, req)
    IN CASE v.raised = "" -> PaginatorPage(list, v.number)
         [] v.raised = "PageNotAnInteger" -> PaginatorPage(list, 1)
         [] v.raised = "EmptyPage" -> PaginatorPage(list, 1)

\* The try / except of post_list.
PostListPage(list, req) ==
    LET v == ValidateNumber(list, req)
    IN CASE v.raised = "" -> PaginatorPage(list, v.number)
         [] v.raised = "PageNotAnInteger" -> PaginatorPage(list, 1)
         [] v.raised = "EmptyPage" -> PaginatorPage(list, NumPages(list))

\* post_list.filter(tags__in=[tag])
TaggedWith(qs, tag) == {id \in qs : <<id, tag>> \in tagged_items}

\* The listing taken from Post.objects instead of Post.published.
PostListQueryOfAll(tag_slug) ==
    MetaOrdering(IF tag_slug = "" THEN AllObjects
                 ELSE TaggedWith(AllObjects, tag_slug))

\* The querysets post_list may paginate: the published posts, of the tag when
\* one is asked for, in the model's default ordering.
PostListQuery(tag_slug) ==
    MetaOrdering(IF tag_slug = "" THEN Published
                 ELSE TaggedWith(Published, tag_slug))

\* The responses post_list may give.
post_list(req) ==
    IF req.tag_slug # "" /\ req.tag_slug \notin tag_table
    THEN {NotFound}                                          \* get_object_or_404
    ELSE {PostListPage(list, req) : list \in PostListQuery(req.tag_slug)}

PostList(req) ==
    /\ request' = req
    /\ response' \in post_list(req)
    /\ UNCHANGED <<posts, next_post_id, tag_table, tagged_items, comments,
                   next_comment_id, inflight, admin_forms>>

(***************************************************************************)
(* views.py: the similar posts of post_detail.                             *)
(***************************************************************************)
\* The join without .exclude(id=post.id).
SimilarRowsKeepingSelf(id) ==
    LET post_tags_ids == TagsOf(id)
    IN {r \in tagged_items : r[2] \in post_tags_ids /\ r[1] \in Published}

\* The rows of the join Post.published.filter(tags__in=post_tags_ids)
\* .exclude(id=post.id): one per (candidate, tag of the post it carries).
SimilarRows(id) ==
    LET post_tags_ids == TagsOf(id)
    IN {r \in tagged_items :
           r[2] \in post_tags_ids /\ r[1] \in Published /\ r[1] # id}

\* The count over every tag of the candidate.
SameTagsOfAll(id, other) == Cardinality(TagsOf(other))

\* annotate(same_tags=Count('tags')): the count over the filtered join.
SameTags(id, other) == Cardinality({r \in SimilarRows(id) : r[1] = other})

\* The join ordered and sliced row by row, a candidate once per shared tag.
SimilarPostsOfRows(id) ==
    LET keyed == {<<<<-SameTags(id, r[1]), -posts[r[1]].publish>>, r>> :
                      r \in SimilarRows(id)}
    IN {Take([i \in 1..Len(s) |-> s[i][1]], SimilarLimit) :
            s \in Orderings(keyed)}

\* .order_by('-same_tags', '-publish')[:4]
similar_posts(id) ==
    LET candidates == {r[1] : r \in SimilarRows(id)}
        keyed == {<<<<-SameTags(id, c), -posts[c].publish>>, c>> : c \in candidates}
    IN {Take(s, SimilarLimit) : s \in Orderings(keyed)}

(***************************************************************************)
(* views.py: post_detail.  The URL names a calendar day (year, month, day) *)
(* and a slug.  get_object_or_404 answers 404 for no matching row and      *)
(* lets MultipleObjectsReturned through, a server error, for several.      *)
(***************************************************************************)
DetailRequest(day, slug) == [day |-> day, slug |-> slug]

DetailResponse(status, post, active_comments, similar) ==
    [status |-> status, post |-> post, comments |-> active_comments,
     similar_posts |-> similar]

Http404 == DetailResponse(404, 0, {}, <<>>)
MultipleObjectsReturned == DetailResponse(500, 0, {}, <<>>)

\* status=Post.Status.PUBLISHED, slug=post, publish__year=year,
\* publish__month=month, publish__day=day
DetailMatches(req) ==
    {id \in DOMAIN posts :
        /\ posts[id].status = PUBLISHED
        /\ posts[id].slug = req.slug
        /\ Day(posts[id].publish) = req.day}

\* post.comments.filter(active=True)
ActiveComments(id) == {c \in comments : c.post = id /\ c.active}

post_detail(req) ==
    LET matches == DetailMatches(req)
    IN IF matches = {} THEN {Http404}
       ELSE IF Cardinality(matches) > 1 THEN {MultipleObjectsReturned}
       ELSE LET post == CHOOSE id \in matches : TRUE
            IN {DetailResponse(200, post, ActiveComments(post), similar) :
                    similar \in similar_posts(post)}

PostDetail(req) ==
    /\ request' = req
    /\ response' \in post_detail(req)
    /\ UNCHANGED <<posts, next_post_id, tag_table, tagged_items, comments,
                   next_comment_id, inflight, admin_forms>>

(***************************************************************************)
(* views.py: post_search.  A query is the sequence of its words; a post    *)
(* matches when its title and body together hold every word of the query.  *)
(***************************************************************************)
Queries == {<<>>} \cup {<<w>> : w \in Words} \cup (Words \X Words)

SearchVector(id) == {posts[id].title, posts[id].body}

post_search(query) ==
    IF query = <<>> THEN {}                                  \* form not valid
    ELSE {id \in Published : Range(query) \subseteq SearchVector(id)}

(***************************************************************************)
(* feeds.py and sitemaps.py                                                *)
(***************************************************************************)
\* LatestPostsFeed.items: Post.published.all()[:5]
LatestPostsFeed_items == {Take(s, FeedLimit) : s \in MetaOrdering(Published)}

\* The feed view answering a request.
LatestPostsFeed ==
    /\ \E items \in LatestPostsFeed_items :
           response' = Response(200, items, 1, 1)
    /\ UNCHANGED <<posts, next_post_id, tag_table, tagged_items, comments,
                   next_comment_id, inflight, admin_forms, request>>

\* PostSitemap.items: Post.published.all()
PostSitemap_items == MetaOrdering(Published)

\* The publish date given as the last modification.
LastmodPublish(obj) == posts[obj].publish

\* PostSitemap.lastmod
PostSitemap_lastmod(obj) == posts[obj].updated

\* The entries of the sitemap, one per item.
PostSitemap_urls ==
    {[i \in 1..Len(s) |->
         [item |-> s[i], lastmod |-> PostSitemap_lastmod(s[i]),
          changefreq |-> "weekly", priority |-> "0.9"]] :
     s \in PostSitemap_items}

(***************************************************************************)
(* views.py: post_comment.  The view reads the post, validates the form    *)
(* and inserts the comment: two statements on the database, between which  *)
(* other requests run.                                                     *)
(***************************************************************************)
Form(name, email, body) == [name |-> name, email |-> email, body |-> body]

NoForm == Form("", "", "")

WellFormedEmails == {"ann@example.com"}

Forms ==
    {Form("Ann", "ann@example.com", "Nice post"),
     Form("", "ann@example.com", "Nice post"),
     Form("Ann", "ann-at-example", "Nice post"),
     Form("Ann", "ann@example.com", "")}

\* CommentForm.is_valid: name, email and body are required, email an address.
is_valid(form) ==
    /\ form.name # ""
    /\ form.email \in WellFormedEmails
    /\ form.body # ""

ValidForm == CHOOSE form \in Forms : is_valid(form)

Idle(result) == [pc |-> "idle", post |-> 0, form |-> NoForm, result |-> result]

\* get_object_or_404(Post, id=post_id, status=Post.Status.PUBLISHED)
PostCommentGet(client, post_id, form) ==
    /\ inflight[client].pc = "idle"
    /\ inflight' =
           [inflight EXCEPT ![client] =
               IF post_id \in DOMAIN posts /\ posts[post_id].status = PUBLISHED
               THEN [pc |-> "fetched", post |-> post_id, form |-> form,
                     result |-> ""]
               ELSE Idle("404")]
    /\ UNCHANGED <<posts, next_post_id, tag_table, tagged_items, comments,
                   next_comment_id, admin_forms, request, response>>

\* form.is_valid(), form.save(commit=False), comment.post = post,
\* comment.save().  The INSERT fails on the foreign key when the post's row
\* is gone.
PostCommentSave(client) ==
    LET req == inflight[client]
    IN /\ req.pc = "fetched"
       /\ IF ~is_valid(req.form)
          THEN /\ inflight' = [inflight EXCEPT ![client] = Idle("invalid")]
               /\ UNCHANGED <<comments, next_comment_id>>
          ELSE IF req.post \notin DOMAIN posts
          THEN /\ inflight' = [inflight EXCEPT ![client] = Idle("IntegrityError")]
               /\ UNCHANGED <<comments, next_comment_id>>
          ELSE /\ comments' = comments \cup
                       {Comment(next_comment_id, req.post, req.form)}
               /\ next_comment_id' = next_comment_id + 1
               /\ inflight' = [inflight EXCEPT ![client] = Idle("saved")]
       /\ UNCHANGED <<posts, next_post_id, tag_table, tagged_items,
                      admin_forms, request, response>>

(***************************************************************************)
(* Spec: the store under the admin site's operations, the posts differing  *)
(* in status, tags, title and body.                                        *)
(***************************************************************************)
EmptyStore ==
    /\ posts = <<>>
    /\ next_post_id = 1
    /\ tag_table = {}
    /\ tagged_items = {}
    /\ comments = {}
    /\ next_comment_id = 1
    /\ inflight = [c \in Clients |-> Idle("")]
    /\ admin_forms = [a \in Admins |-> NoPostForm]
    /\ request = NoRequest
    /\ response = NoResponse

Init == EmptyStore

Next ==
    \/ /\ next_post_id <= MaxPosts
       /\ \E title \in Words, body \in Words, status \in Status,
             tags \in SUBSET TagNames :
              AdminAddPost(title, SlugOf(next_post_id), body, 1, status, tags, 1)
    \/ \E id \in DOMAIN posts, status \in Status :
           AdminChangeStatus(id, status, 1)
    \/ \E id \in DOMAIN posts, tags \in SUBSET TagNames :
           AdminSetTags(id, tags, 1)
    \/ \E id \in DOMAIN posts : AdminDeletePost(id)

Spec == Init /\ [][Next]_vars

(***************************************************************************)
(* SpecRank: the same operations, the posts differing in status, tags and  *)
(* publish date.                                                           *)
(***************************************************************************)
NextRank ==
    \/ /\ next_post_id <= MaxRankPosts
       /\ \E publish \in Dates, status \in Status, tags \in SUBSET TagNames :
              AdminAddPost(SomeWord, SlugOf(next_post_id), SomeWord, publish,
                           status, tags, 1)
    \/ \E id \in DOMAIN posts, status \in Status :
           AdminChangeStatus(id, status, 1)
    \/ \E id \in DOMAIN posts, tags \in SUBSET TagNames :
           AdminSetTags(id, tags, 1)
    \/ \E id \in DOMAIN posts : AdminDeletePost(id)

SpecRank == Init /\ [][NextRank]_vars

(***************************************************************************)
(* SpecSitemap: the same operations at different times, the posts          *)
(* differing in status, publish date and time of the last save.            *)
(***************************************************************************)
NextSitemap ==
    \/ /\ next_post_id <= MaxPosts
       /\ \E publish \in Dates, status \in Status, now \in Dates :
              AdminAddPost(SomeWord, SlugOf(next_post_id), SomeWord, publish,
                           status, {}, now)
    \/ \E id \in DOMAIN posts, status \in Status, now \in Dates :
           AdminChangeStatus(id, status, now)
    \/ \E id \in DOMAIN posts : AdminDeletePost(id)

SpecSitemap == Init /\ [][NextSitemap]_vars

(***************************************************************************)
(* SpecComment: post_comment requests running beside the admin site.       *)
(***************************************************************************)
NextComment ==
    \/ /\ next_post_id <= MaxPosts
       /\ \E status \in Status :
              AdminAddPost(SomeWord, SlugOf(next_post_id), SomeWord, 1,
                           status, {}, 1)
    \/ \E id \in DOMAIN posts, status \in Status :
           AdminChangeStatus(id, status, 1)
    \/ \E id \in DOMAIN posts : AdminDeletePost(id)
    \/ /\ next_comment_id <= MaxComments
       /\ \E client \in Clients, post_id \in 1..MaxPosts, form \in Forms :
              PostCommentGet(client, post_id, form)
    \/ \E client \in Clients : PostCommentSave(client)

SpecComment == Init /\ [][NextComment]_vars

(***************************************************************************)
(* SpecCascade: posts with tags added and deleted on the admin site while  *)
(* post_comment requests with a valid form run.                            *)
(***************************************************************************)
NextCascade ==
    \/ /\ next_post_id <= MaxPosts
       /\ \E status \in Status, tags \in SUBSET TagNames :
              AdminAddPost(SomeWord, SlugOf(next_post_id), SomeWord, 1,
                           status, tags, 1)
    \/ \E id \in DOMAIN posts : AdminDeletePost(id)
    \/ /\ next_comment_id <= MaxComments
       /\ \E client \in Clients, post_id \in 1..MaxPosts :
              PostCommentGet(client, post_id, ValidForm)
    \/ \E client \in Clients : PostCommentSave(client)

SpecCascade == Init /\ [][NextCascade]_vars

(***************************************************************************)
(* SpecFeed: the feed of stores of up to MaxFeedPosts posts created one    *)
(* after the other (publish defaults to the time of creation), each Draft  *)
(* or Published.                                                           *)
(***************************************************************************)
NonDecreasing(n) ==
    {f \in [1..n -> Dates] : \A i \in 1..(n - 1) : f[i] <= f[i + 1]}

\* A request is pending until the view has answered it.
Pending == response = NoResponse

StoreOf(n, publish, status, req) ==
    /\ posts = [id \in 1..n |->
                   Post(SomeWord, SlugOf(id), SomeWord, publish[id],
                        publish[id], status[id])]
    /\ next_post_id = n + 1
    /\ tag_table = {}
    /\ tagged_items = {}
    /\ comments = {}
    /\ next_comment_id = 1
    /\ inflight = [c \in Clients |-> Idle("")]
    /\ admin_forms = [a \in Admins |-> NoPostForm]
    /\ request = req
    /\ response = NoResponse

InitFeed ==
    \E n \in 0..MaxFeedPosts :
        \E publish \in NonDecreasing(n), status \in [1..n -> Status] :
            StoreOf(n, publish, status, NoRequest)

NextFeed == Pending /\ LatestPostsFeed

SpecFeed == InitFeed /\ [][NextFeed]_vars

(***************************************************************************)
(* SpecPage: post_list on stores of up to MaxPagePosts posts, each         *)
(* published at a time of its own, answering a request with a page         *)
(* parameter of up to MaxParamLen characters.                              *)
(***************************************************************************)
PageRequests ==
    {Request("", FALSE, <<>>)} \cup
    {Request("", TRUE, page) : page \in Strings(MaxParamLen)}

InitPage ==
    \E n \in 0..MaxPagePosts :
        \E status \in [1..n -> Status], req \in PageRequests :
            StoreOf(n, [id \in 1..n |-> id], status, req)

NextPage == Pending /\ PostList(request)

SpecPage == InitPage /\ [][NextPage]_vars

(***************************************************************************)
(* SpecDetail: post_detail on stores that MaxAdmins staff users fill at    *)
(* once, the posts differing in slug, publish time and status, their       *)
(* comments in the post and the active flag.                               *)
(***************************************************************************)
Slugs == {SlugOf(1), SlugOf(2)}
DetailDates == 1..(MaxDate + 1)

DetailRequests ==
    {DetailRequest(Day(t), slug) : t \in DetailDates, slug \in Slugs}

Validated == {a \in Admins : admin_forms[a].pc = "valid"}

NextDetail ==
    \/ /\ next_post_id + Cardinality(Validated) <= MaxPosts
       /\ \E admin \in Admins, slug \in Slugs, publish \in DetailDates,
             status \in Status :
              AdminValidatePost(admin, SomeWord, slug, SomeWord, publish,
                                status, 1)
    \/ \E admin \in Admins : AdminSavePost(admin)
    \/ \E id \in DOMAIN posts, status \in Status :
           AdminChangeStatus(id, status, 1)
    \/ /\ next_comment_id <= MaxComments
       /\ \E post_id \in DOMAIN posts, active \in BOOLEAN :
              AdminAddComment(post_id, ValidForm, active)
    \/ \E c \in comments, active \in BOOLEAN : AdminSetActive(c.id, active)

SpecDetail == Init /\ [][NextDetail]_vars

(***************************************************************************)
(* SpecSimilar: post_detail on stores of up to MaxSimilarPosts Published   *)
(* posts with any tags, two posts to a publish time, answering the request *)
(* for one of them.                                                        *)
(***************************************************************************)
TaggedStoreOf(n, tags, viewed) ==
    /\ posts = [id \in 1..n |->
                   Post(SomeWord, SlugOf(id), SomeWord, (id + 1) \div 2,
                        (id + 1) \div 2, PUBLISHED)]
    /\ next_post_id = n + 1
    /\ tag_table = UNION {tags[id] : id \in 1..n}
    /\ tagged_items = {r \in (1..n) \X TagNames : r[2] \in tags[r[1]]}
    /\ comments = {}
    /\ next_comment_id = 1
    /\ inflight = [c \in Clients |-> Idle("")]
    /\ admin_forms = [a \in Admins |-> NoPostForm]
    /\ request = DetailRequest(Day(posts[viewed].publish), posts[viewed].slug)
    /\ response = NoResponse

InitSimilar ==
    \E n \in 1..MaxSimilarPosts :
        \E tags \in [1..n -> SUBSET TagNames], viewed \in 1..n :
            TaggedStoreOf(n, tags, viewed)

NextSimilar == Pending /\ PostDetail(request)

SpecSimilar == InitSimilar /\ [][NextSimilar]_vars

(***************************************************************************)
(* The claims.  What a claim calls visible, shared tags or total pages is  *)
(* written out here from the rows of the store.                            *)
(***************************************************************************)
Visible == {id \in DOMAIN posts : posts[id].status = "PB"}
Drafts == {id \in DOMAIN posts : posts[id].status = "DF"}
Tags(id) == {r[2] : r \in {x \in tagged_items : x[1] = id}}
Shared(a, b) == Cardinality(Tags(a) \cap Tags(b))
NoDuplicates(s) == \A i, j \in 1..Len(s) : s[i] = s[j] => i = j

ListRequests ==
    {Request(tag, has_page, page) :
        tag \in {""} \cup TagNames, has_page \in BOOLEAN, page \in Strings(1)}

\* C1: a post whose status is Draft is in no page of the listing (with or
\* without a tag), in no search result, in no post's similar posts, not in
\* the feed and not in the sitemap, whatever its tags, title and body.
C1_DraftNeverShown ==
    \A d \in Drafts :
        /\ \A req \in ListRequests : \A r \in post_list(req) : d \notin Range(r.items)
        /\ \A query \in Queries : d \notin post_search(query)
        /\ \A id \in DOMAIN posts : \A s \in similar_posts(id) : d \notin Range(s)
        /\ \A items \in LatestPostsFeed_items : d \notin Range(items)
        /\ \A items \in PostSitemap_items : d \notin Range(items)

\* A Draft that carries the tag and the words of a Published post.
C1_Witness ==
    \E d \in Drafts, p \in Visible :
        /\ Tags(d) \cap Tags(p) # {}
        /\ posts[d].title = posts[p].title
        /\ posts[d].body # posts[d].title
        /\ p \in post_search(<<posts[d].title, posts[d].body>>)

\* C2: in every interleaving of post_comment with status changes and
\* deletions of posts, a comment is written only while its post exists and
\* is Published.
C2_CommentOnlyOnPublished ==
    [][\A c \in comments' \ comments :
           c.post \in DOMAIN posts /\ posts[c.post].status = "PB"]_vars

\* C3: the similar posts of a Published post hold neither the post itself
\* nor a post that shares no tag with it; with no tags on the post they are
\* the empty sequence.
C3_SimilarExcludes ==
    \A a \in Visible :
        /\ similar_posts(a) # {}
        /\ \A s \in similar_posts(a) :
              /\ a \notin Range(s)
              /\ \A i \in 1..Len(s) : Tags(s[i]) \cap Tags(a) # {}
        /\ Tags(a) = {} => similar_posts(a) = {<<>>}

\* A tagged post with a Published post that shares a tag, and a Published
\* post without tags.
C3_Witness ==
    \E a, b, c \in Visible :
        /\ a # b
        /\ Tags(a) \cap Tags(b) # {}
        /\ Tags(c) = {}
        /\ \E s \in similar_posts(a) : b \in Range(s)

\* C4: the similar posts come by non-increasing number of tags shared with
\* the post (the size of the intersection of the two tag sets), and among
\* equal numbers by non-increasing publish date.
C4_SimilarSorted ==
    \A a \in Visible : \A s \in similar_posts(a) :
        \A i, j \in 1..Len(s) :
            i < j =>
                /\ Shared(a, s[i]) >= Shared(a, s[j])
                /\ Shared(a, s[i]) = Shared(a, s[j])
                       => posts[s[i]].publish >= posts[s[j]].publish

\* Two candidates sharing one tag each, the older one carrying a tag more.
C4_Witness ==
    \E a, x, y \in Visible :
        /\ Cardinality({a, x, y}) = 3
        /\ Shared(a, x) = 1 /\ Shared(a, y) = 1
        /\ Cardinality(Tags(x)) = 2
        /\ posts[y].publish > posts[x].publish
        /\ similar_posts(a) = {<<y, x>>}

\* The page a request is answered with, from the listing it is a page of.
TotalPages(n) == IF n = 0 THEN 1 ELSE (n + 2) \div 3

Slice(list, k) ==
    [i \in 1..(IF 3 * k <= Len(list) THEN 3
               ELSE IF Len(list) > 3 * (k - 1) THEN Len(list) - 3 * (k - 1)
               ELSE 0) |-> list[3 * (k - 1) + i]]

PageOf(list, k) ==
    [status |-> 200, items |-> Slice(list, k), number |-> k,
     num_pages |-> TotalPages(Len(list)),
     has_next |-> k < TotalPages(Len(list)), has_previous |-> k > 1]

\* A listing of the Published posts: each once, newest first.
IsListing(s) ==
    /\ Range(s) = Visible
    /\ Len(s) = Cardinality(Visible)
    /\ \A i \in 1..(Len(s) - 1) : posts[s[i]].publish >= posts[s[i + 1]].publish

Listings == {s \in PostListQuery("") : IsListing(s)}

Answered == ~Pending

\* The text of the page parameter: of an integer, or not.
Numeric(page) ==
    LET digits == IF page # <<>> /\ page[1] = "-" THEN Tail(page) ELSE page
    IN /\ digits # <<>>
       /\ \A i \in 1..Len(digits) : digits[i] \in {"0", "1", "2", "3"}

RECURSIVE Decimal(_)
Decimal(digits) ==
    IF digits = <<>> THEN 0
    ELSE 10 * Decimal(SubSeq(digits, 1, Len(digits) - 1)) +
         (CHOOSE d \in 0..3 : <<"0", "1", "2", "3">>[d + 1] = digits[Len(digits)])

Number(page) ==
    IF page[1] = "-" THEN 0 - Decimal(Tail(page)) ELSE Decimal(page)

\* C5: a page parameter that is not a number is answered exactly as page 1
\* is.
C5_TextIsPageOne ==
    (Answered /\ request.has_page /\ ~Numeric(request.page))
        => \E list \in Listings : response = PageOf(list, 1)

\* "a", asked of a listing of several pages.
C5_Witness ==
    /\ Answered /\ request.has_page
    /\ request.page \in {<<"a">>, <<"a", "a">>, <<"1", "a">>}
    /\ Cardinality(Visible) > 3
    /\ response.has_next

\* C6, as claimed: every page parameter that is not a positive integer, zero
\* and the negative integers among them, is answered with page 1.
C6_NonPositiveIsPageOne ==
    (Answered /\ request.has_page
        /\ (Numeric(request.page) => Number(request.page) < 1))
        => \E list \in Listings : response = PageOf(list, 1)

\* C6, as the code has it: a parameter that is no integer is answered with
\* page 1, zero and the negative integers with the last page, and no request
\* with an error.
C6_NonPositiveIsFirstOrLast ==
    Answered =>
        /\ response.status = 200
        /\ (request.has_page /\ ~Numeric(request.page))
               => \E list \in Listings : response = PageOf(list, 1)
        /\ (request.has_page /\ Numeric(request.page) /\ Number(request.page) < 1)
               => \E list \in Listings :
                      response = PageOf(list, TotalPages(Len(list)))

\* Zero or a negative integer, asked of a listing of several pages.
C6_Witness ==
    /\ Answered /\ request.has_page
    /\ request.page \in {<<"0">>, <<"-", "1">>}
    /\ Cardinality(Visible) > 3
    /\ response.number > 1

\* C7: a page number above the number of pages is answered with the last
\* page: its number is the number of pages, has_next is false, the items are
\* the end of the listing; with no Published post the last page is page 1.
C7_BeyondIsLastPage ==
    (Answered /\ request.has_page /\ Numeric(request.page)
        /\ Number(request.page) > TotalPages(Cardinality(Visible)))
        => /\ \E list \in Listings :
                  /\ response = PageOf(list, TotalPages(Len(list)))
                  /\ response.items =
                         SubSeq(list, 3 * (response.number - 1) + 1, Len(list))
           /\ response.number = TotalPages(Cardinality(Visible))
           /\ ~response.has_next
           /\ Visible = {} => response.number = 1 /\ response.items = <<>>

\* A page far beyond the last of several, the last page not a full one.
C7_Witness ==
    /\ Answered /\ request.has_page
    /\ request.page = <<"3", "3">>
    /\ Cardinality(Visible) > 3
    /\ Len(response.items) \in 1..2

RECURSIVE Concatenation(_, _)
Concatenation(list, k) ==
    IF k = 0 THEN <<>>
    ELSE Concatenation(list, k - 1) \o PaginatorPage(list, k).items

\* C8: pages are numbered from 1 and there are max(1, ceil(n / 3)) of them
\* for n Published posts; with none, page 1 has no items, no next and no
\* previous page; every page but the last holds 3 items and the pages one
\* after the other are the listing.
C8_PagesOfThree ==
    /\ Answered =>
          /\ response.num_pages = TotalPages(Cardinality(Visible))
          /\ response.number \in 1..response.num_pages
          /\ response.number < response.num_pages => Len(response.items) = 3
          /\ \E list \in Listings : response = PageOf(list, response.number)
          /\ Visible = {} =>
                 response = [status |-> 200, items |-> <<>>, number |-> 1,
                             num_pages |-> 1, has_next |-> FALSE,
                             has_previous |-> FALSE]
    /\ \A list \in PostListQuery("") :
          /\ list \in Listings
          /\ Concatenation(list, TotalPages(Len(list))) = list

\* The middle page of three.
C8_Witness ==
    /\ Answered
    /\ response.number = 2 /\ response.has_next /\ response.has_previous
    /\ Len(response.items) = 3

\* C9: the feed holds min(5, number of Published posts) Published posts,
\* newest first, and no Published post left out is newer than one in it.
C9_FeedIsLatestFive ==
    Answered =>
        LET items == response.items
        IN /\ Len(items) = Min(5, Cardinality(Visible))
           /\ Range(items) \subseteq Visible
           /\ NoDuplicates(items)
           /\ \A i \in 1..(Len(items) - 1) :
                  posts[items[i]].publish >= posts[items[i + 1]].publish
           /\ \A out \in Visible \ Range(items) : \A i \in 1..Len(items) :
                  posts[out].publish <= posts[items[i]].publish

\* Six Published posts, the fifth and sixth of the same date, and a feed
\* given.
C9_Witness ==
    /\ Answered
    /\ Cardinality(Visible) > 5
    /\ Len(response.items) = 5
    /\ \E out \in Visible \ Range(response.items) :
           posts[out].publish = posts[response.items[5]].publish
    /\ posts[response.items[1]].publish > posts[response.items[5]].publish

\* C10: the sitemap's items are the Published posts, each once, and each
\* entry's lastmod is the post's updated.
C10_SitemapIsPublished ==
    \A urls \in PostSitemap_urls :
        /\ {urls[i].item : i \in 1..Len(urls)} = Visible
        /\ Len(urls) = Cardinality(Visible)
        /\ \A i \in 1..Len(urls) : urls[i].lastmod = posts[urls[i].item].updated

\* A Published post dated after its last save, beside a Draft.
C10_Witness ==
    /\ Drafts # {}
    /\ \E p \in Visible : posts[p].publish > posts[p].updated
    /\ \E urls \in PostSitemap_urls : Len(urls) >= 1

\* C11: the detail query for (day, slug) answers NotFound when no Published
\* post has that slug and a publish time on that day, in particular when
\* the only post with them is a Draft, and otherwise answers with that post
\* and exactly its comments whose active flag is true.
MatchingVisible(req) ==
    {id \in Visible :
        posts[id].slug = req.slug /\ Day(posts[id].publish) = req.day}

C11_DetailOfPublished ==
    \A req \in DetailRequests :
        IF MatchingVisible(req) = {}
        THEN post_detail(req) = {Http404}
        ELSE \A r \in post_detail(req) :
                 /\ r.status = 200
                 /\ r.post \in MatchingVisible(req)
                 /\ r.comments = {c \in comments : c.post = r.post /\ c.active = TRUE}

\* C12: in every reachable store no two posts whose publish times fall on
\* the same calendar day have the same slug, so the detail query for a day
\* and a slug never finds more than one post.
C12_SlugUniquePerDay ==
    /\ \A a, b \in DOMAIN posts :
           (posts[a].slug = posts[b].slug
               /\ Day(posts[a].publish) = Day(posts[b].publish)) => a = b
    /\ \A req \in DetailRequests :
           /\ Cardinality(DetailMatches(req)) <= 1
           /\ MultipleObjectsReturned \notin post_detail(req)

\* C13: deleting a post removes every comment of the post and every
\* association of the post with a tag, and leaves the Tag rows and the
\* comments and tag associations of the other posts as they were; after
\* every step no comment references a post that does not exist.
C13_DeleteCascades ==
    [][/\ \A id \in DOMAIN posts \ DOMAIN posts' :
              /\ \A c \in comments' : c.post # id
              /\ \A r \in tagged_items' : r[1] # id
              /\ tag_table' = tag_table
              /\ \A c \in comments : c.post # id => c \in comments'
              /\ \A r \in tagged_items : r[1] # id => r \in tagged_items'
              /\ comments' \subseteq comments
              /\ tagged_items' \subseteq tagged_items
       /\ \A c \in comments' : c.post \in DOMAIN posts']_vars

\* A post that had a tag and a comment is gone, its tag is still a Tag row,
\* and another post keeps its own tag and comment.
C13_Witness ==
    /\ \E id \in 1..(next_post_id - 1) : id \notin DOMAIN posts
    /\ Cardinality(comments) < next_comment_id - 1
    /\ \E t \in tag_table : \A r \in tagged_items : r[2] # t
    /\ \E p \in DOMAIN posts :
           /\ \E c \in comments : c.post = p
           /\ \E r \in tagged_items : r[1] = p

\* C14: a comment submission ends in one of three ways: NotFound or a
\* validation error, with no comment written and the store as it was, or
\* success, with exactly one comment added that references the requested
\* post and has active = true, and no post, tag or other comment changed.
C14_CommentOutcomes ==
    [][\A client \in Clients :
           LET before == inflight[client]
               after == inflight'[client]
           IN (after.pc = "idle" /\ after # before) =>
                  /\ after.result \in {"404", "invalid", "saved"}
                  /\ after.result \in {"404", "invalid"} =>
                         UNCHANGED <<posts, tag_table, tagged_items, comments>>
                  /\ after.result = "saved" =>
                         /\ \E c \in comments' \ comments :
                                /\ comments' = comments \cup {c}
                                /\ c.post = before.post
                                /\ c.active = TRUE
                         /\ UNCHANGED <<posts, tag_table, tagged_items>>]_vars

\* C15: the similar posts post_detail answers with are at most 4 and hold
\* no post twice, also when a candidate shares several tags with the post;
\* they are the first 4 (all, when fewer qualify) of a ranking of every
\* qualifying post by shared tags descending, then publish descending.
Qualifying(a) == {b \in Visible \ {a} : Shared(a, b) > 0}

RanksBefore(a, x, y) ==
    \/ Shared(a, x) > Shared(a, y)
    \/ Shared(a, x) = Shared(a, y) /\ posts[x].publish > posts[y].publish

C15_SimilarFirstFour ==
    (Answered /\ response.status = 200) =>
        LET a == response.post
            s == response.similar_posts
        IN /\ Len(s) <= 4
           /\ NoDuplicates(s)
           /\ Range(s) \subseteq Qualifying(a)
           /\ Len(s) = Min(4, Cardinality(Qualifying(a)))
           /\ \A i, j \in 1..Len(s) : i < j => ~RanksBefore(a, s[j], s[i])
           /\ \A b \in Qualifying(a) \ Range(s) :
                  \A i \in 1..Len(s) : ~RanksBefore(a, b, s[i])

\* More than 4 posts qualify, one of them sharing two tags with the post,
\* and the answer holds 4.
C15_Witness ==
    /\ Answered
    /\ response.status = 200
    /\ Cardinality(Qualifying(response.post)) > 4
    /\ \E b \in Qualifying(response.post) : Shared(response.post, b) > 1
    /\ Len(response.similar_posts) = 4

====
